---- MODULE Spec2Model ----
(***************************************************************************)
(* A model of the retrieval-augmented generation pipeline of SageMind:     *)
(* the sentence chunker (services/ingestion.py), citation extraction,      *)
(* vector retrieval and the chat turn (services/chat.py), and the          *)
(* send_message route (api/routes/chat.py).                                *)
(*                                                                         *)
(* Texts are sequences of one-character strings, so that the character-    *)
(* level operations of the code (regular expressions, strip, slices) are   *)
(* computed as the code computes them.                                     *)
(***************************************************************************)
EXTENDS Integers, Sequences, FiniteSets, TLC

VARIABLES
    text,             \* TextChunker.chunk_text: the argument
    target_tokens,    \* TextChunker.target_tokens
    overlap_tokens,   \* TextChunker.overlap_tokens
    text_chunks,      \* the list chunk_text returned ("none" before the call)
    chunker_pc,       \* "idle" | "ready" | "done"
    response_text,    \* ChatService.extract_citations: the argument
    extracted,        \* the list extract_citations returned
    extract_pc,       \* "idle" | "ready" | "done"
    documents,        \* table documents: the ids of its rows
    chunk_rows,       \* table chunks: a set of rows
    used_chunk_ids,   \* the chunk ids uuid4 has handed out
    files,            \* the files of the upload directory
    uploads,          \* the calls of upload_document, with their responses
    runs,             \* the ingestion runs started, in order of their start
    processed,        \* Document.processed: id -> <<>> (NULL) or <<time>>
    sessions,         \* table chat_sessions with session_documents: id -> row
    messages,         \* table messages, in order of creation
    turns,            \* the calls of send_message and ChatService.chat
    now,              \* datetime.utcnow(), as a count of the rows written
    retrieval,        \* the last call of retrieve_context made on its own
    openai_api_key,   \* settings.openai_api_key: "" | "sk-your-key-here" | "sk-key"
    dimension,        \* EmbeddingService.dimension
    embeddings_model, \* EmbeddingService._embeddings_model: "None" | "mock" | "openai"
    random_state,     \* the generator of module random: <<seed, values drawn>>
    embed_calls       \* the calls of generate_embedding(s) made, with their results

chunkerVars == <<text, target_tokens, overlap_tokens, text_chunks, chunker_pc>>
extractVars == <<response_text, extracted, extract_pc>>
storeVars == <<documents, chunk_rows, used_chunk_ids, files, uploads, runs, processed>>
chatVars == <<sessions, messages, turns, now>>
embedVars == <<openai_api_key, dimension, embeddings_model, random_state, embed_calls>>

vars == <<chunkerVars, extractVars, storeVars, chatVars, retrieval, embedVars>>

(***************************************************************************)
(* Bounds of the model                                                     *)
(***************************************************************************)
MaxPieces == 4          \* a chunker input is at most this many pieces
MaxTargetTokens == 2    \* target_tokens ranges over 1..MaxTargetTokens
MaxOverlapTokens == 1   \* overlap_tokens ranges over 0..MaxOverlapTokens
MaxSegments == 4        \* a generated text is at most this many segments
MaxDirection == 3       \* a stored vector points in one of the directions 0..MaxDirection
MaxTopK == 2            \* an explicit top_k ranges over 0..MaxTopK
MaxTurns == 1           \* calls of send_message and ChatService.chat
MaxSessions == 1        \* chat sessions created
MaxMarkers == 2         \* markers in a text generated in a chat turn
MaxDimension == 2       \* settings.embedding_dimension ranges over 1..MaxDimension
MaxBatch == 2           \* texts in one call of generate_embeddings
MaxCalls == 2           \* calls of the embedding service
MaxRuns == 2            \* ingestion runs started
MaxUploads == 2         \* calls of upload_document

(***************************************************************************)
(* Characters and strings                                                  *)
(***************************************************************************)
Whitespace == {" ", "\n", "\t", "\r"}
UpperCase == {"A", "B", "C", "D", "E", "F", "G", "H", "I", "J", "K", "L", "M",
              "N", "O", "P", "Q", "R", "S", "T", "U", "V", "W", "X", "Y", "Z"}
SentenceEnd == {".", "!", "?"}

RECURSIVE Concat(_)
\* the concatenation of a sequence of strings
Concat(parts) ==
    IF parts = <<>> THEN <<>> ELSE Head(parts) \o Concat(Tail(parts))

RECURSIVE Join(_, _)
\* sep.join(parts)
Join(parts, sep) ==
    IF parts = <<>> THEN <<>>
    ELSE IF Len(parts) = 1 THEN parts[1]
    ELSE parts[1] \o sep \o Join(Tail(parts), sep)

RECURSIVE LStrip(_)
LStrip(s) ==
    IF s # <<>> /\ Head(s) \in Whitespace THEN LStrip(Tail(s)) ELSE s

RECURSIVE RStrip(_)
RStrip(s) ==
    IF s # <<>> /\ s[Len(s)] \in Whitespace
    THEN RStrip(SubSeq(s, 1, Len(s) - 1)) ELSE s

\* str.strip()
Strip(s) == RStrip(LStrip(s))

IsPrefix(p, s) == Len(p) <= Len(s) /\ SubSeq(s, 1, Len(p)) = p
IsSuffix(p, s) == Len(p) <= Len(s) /\ SubSeq(s, Len(s) - Len(p) + 1, Len(s)) = p

\* s[-n:] of Python: the last n characters, and the whole of s for n = 0
NegSlice(s, n) ==
    IF n = 0 \/ n >= Len(s) THEN s ELSE SubSeq(s, Len(s) - n + 1, Len(s))

(***************************************************************************)
(* TextChunker                                                             *)
(***************************************************************************)
chars_per_token == 4

\* the end of the run of whitespace that starts at i (the first index after it)
RECURSIVE SkipSpace(_, _)
SkipSpace(s, i) ==
    IF i <= Len(s) /\ s[i] \in Whitespace THEN SkipSpace(s, i + 1) ELSE i

\* (?<=[.!?])\s+(?=[A-Z]) matched at index i: the index after the match, or 0
BoundaryAt(s, i) ==
    IF i > 1 /\ i <= Len(s) /\ s[i - 1] \in SentenceEnd /\ s[i] \in Whitespace
    THEN LET j == SkipSpace(s, i)
         IN IF j <= Len(s) /\ s[j] \in UpperCase THEN j ELSE 0
    ELSE 0

RECURSIVE ReSplit(_, _, _, _)
\* re.split of the boundary pattern: scanning at i, the current piece starts at from
ReSplit(s, i, from, acc) ==
    IF i > Len(s) THEN Append(acc, SubSeq(s, from, Len(s)))
    ELSE LET j == BoundaryAt(s, i)
         IN IF j # 0 THEN ReSplit(s, j, j, Append(acc, SubSeq(s, from, i - 1)))
            ELSE ReSplit(s, i + 1, from, acc)

RECURSIVE SplitParagraphs(_, _, _, _)
\* s.split('\n\n')
SplitParagraphs(s, i, from, acc) ==
    IF i > Len(s) THEN Append(acc, SubSeq(s, from, Len(s)))
    ELSE IF i < Len(s) /\ s[i] = "\n" /\ s[i + 1] = "\n"
         THEN SplitParagraphs(s, i + 2, i + 2, Append(acc, SubSeq(s, from, i - 1)))
         ELSE SplitParagraphs(s, i + 1, from, acc)

RECURSIVE StripNonBlank(_)
\* [p.strip() for p in paragraphs if p.strip()]
StripNonBlank(paragraphs) ==
    IF paragraphs = <<>> THEN <<>>
    ELSE LET p == Strip(Head(paragraphs))
         IN (IF p # <<>> THEN <<p>> ELSE <<>>) \o StripNonBlank(Tail(paragraphs))

RECURSIVE ExtendParagraphs(_)
ExtendParagraphs(pieces) ==
    IF pieces = <<>> THEN <<>>
    ELSE StripNonBlank(SplitParagraphs(Head(pieces), 1, 1, <<>>))
         \o ExtendParagraphs(Tail(pieces))

\* TextChunker._split_into_sentences
split_into_sentences(t) == ExtendParagraphs(ReSplit(t, 1, 1, <<>>))

\* a mutant of get_overlap_text: the head of the text instead of its tail
get_overlap_text_head(current_chunk, max_chars) ==
    LET combined == Join(current_chunk, <<" ">>)
    IN IF Len(combined) <= max_chars THEN combined
       ELSE SubSeq(combined, 1, max_chars)

\* TextChunker._get_overlap_text
get_overlap_text(current_chunk, max_chars) ==
    LET combined == Join(current_chunk, <<" ">>)
    IN IF Len(combined) <= max_chars THEN combined
       ELSE NegSlice(combined, max_chars)

\* a mutant of ChunkContent: the content is cut at the target size
ChunkContentCut(current_chunk) ==
    LET c == Strip(Join(current_chunk, <<" ">>))
        n == target_tokens * chars_per_token
    IN IF Len(c) > n THEN SubSeq(c, 1, n) ELSE c

\* " ".join(current_chunk).strip(), the content of an emitted chunk
ChunkContent(current_chunk) == Strip(Join(current_chunk, <<" ">>))

\* the locals of chunk_text before its loop
LoopInit ==
    [chunks |-> <<>>, current_chunk |-> <<>>, current_length |-> 0,
     chunk_start |-> 0, char_position |-> 0]

\* one iteration of the loop of chunk_text
LoopStep(st, sentence, target_chars, overlap_chars) ==
    LET sentence_length == Len(sentence)
        flush == /\ st.current_length + sentence_length > target_chars
                 /\ st.current_chunk # <<>>
        overlap_text == get_overlap_text(st.current_chunk, overlap_chars)
        st1 == IF flush
               THEN [st EXCEPT
                      !.chunks = Append(@, [content |-> ChunkContent(st.current_chunk),
                                            char_start |-> st.chunk_start]),
                      !.current_chunk =
                          IF overlap_text # <<>> THEN <<overlap_text>> ELSE <<>>,
                      !.current_length =
                          IF overlap_text # <<>> THEN Len(overlap_text) ELSE 0,
                      !.chunk_start =
                          IF overlap_text # <<>>
                          THEN st.char_position - Len(overlap_text)
                          ELSE st.char_position]
               ELSE st
    IN [st1 EXCEPT !.current_chunk = Append(@, sentence),
                   !.current_length = @ + sentence_length + 1,
                   !.char_position = @ + sentence_length + 1]

RECURSIVE Loop(_, _, _, _)
Loop(st, sentences, target_chars, overlap_chars) ==
    IF sentences = <<>> THEN st
    ELSE Loop(LoopStep(st, Head(sentences), target_chars, overlap_chars),
              Tail(sentences), target_chars, overlap_chars)

\* a mutant of LastChunk: the accumulation left at the end is not emitted
LastChunkForgotten(st) == st.chunks

\* "Don't forget the last chunk"
LastChunk(st) ==
    IF st.current_chunk # <<>> /\ ChunkContent(st.current_chunk) # <<>>
    THEN Append(st.chunks, [content |-> ChunkContent(st.current_chunk),
                            char_start |-> st.chunk_start])
    ELSE st.chunks

\* a mutant of chunk_text: no check for blank input, the text is one chunk
chunk_text_unchecked(t) ==
    IF t = <<>> THEN <<>> ELSE <<[content |-> t, char_start |-> 0]>>

\* TextChunker.chunk_text
chunk_text(t) ==
    IF t = <<>> \/ Strip(t) = <<>> THEN <<>>
    ELSE LastChunk(Loop(LoopInit, split_into_sentences(t),
                        target_tokens * chars_per_token,
                        overlap_tokens * chars_per_token))

(***************************************************************************)
(* ChatService.extract_citations                                           *)
(***************************************************************************)
LowerHex == {"a", "b", "c", "d", "e", "f"}
UpperHex == {"A", "B", "C", "D", "E", "F"}
Digits == {"0", "1", "2", "3", "4", "5", "6", "7", "8", "9"}

\* the lengths of the groups of hexadecimal digits of the pattern
UuidGroups == <<8, 4, 4, 4, 12>>

Rep(c, n) == [i \in 1..n |-> c]

\* [a-f0-9]{n} under re.IGNORECASE, matched at index i: the index after it, or 0
HexRun(s, i, n) ==
    IF /\ i + n - 1 <= Len(s)
       /\ \A k \in i..(i + n - 1) : s[k] \in LowerHex \cup UpperHex \cup Digits
    THEN i + n ELSE 0

\* a literal matched at index i: the index after it, or 0
Literal(s, i, lit) ==
    IF i # 0 /\ i + Len(lit) - 1 <= Len(s) /\ SubSeq(s, i, i + Len(lit) - 1) = lit
    THEN i + Len(lit) ELSE 0

RECURSIVE HexGroups(_, _, _)
\* the groups g.. of the pattern, separated by hyphens, matched at index i
HexGroups(s, i, g) ==
    LET j == IF i = 0 THEN 0 ELSE HexRun(s, i, UuidGroups[g])
    IN IF j = 0 \/ g = Len(UuidGroups) THEN j
       ELSE HexGroups(s, Literal(s, j, <<"-">>), g + 1)

\* the pattern \[\[(...)\]\] matched at index i: the index after the match, or 0
MatchAt(s, i) ==
    LET body == Literal(s, i, <<"[", "[">>)
        close == HexGroups(s, body, 1)
    IN Literal(s, close, <<"]", "]">>)

\* the leftmost index >= i at which the pattern matches, or 0
NextMatch(s, i) ==
    LET starts == { j \in i..Len(s) : MatchAt(s, j) # 0 }
    IN IF starts = {} THEN 0
       ELSE CHOOSE j \in starts : \A k \in starts : j <= k

RECURSIVE FindAll(_, _)
\* re.findall: the group of every match, leftmost first, matches not overlapping
FindAll(s, i) ==
    LET j == NextMatch(s, i)
    IN IF j = 0 THEN <<>>
       ELSE <<SubSeq(s, j + 2, MatchAt(s, j) - 3)>> \o FindAll(s, MatchAt(s, j))

ToLower(c) ==
    CASE c = "A" -> "a" [] c = "B" -> "b" [] c = "C" -> "c"
      [] c = "D" -> "d" [] c = "E" -> "e" [] c = "F" -> "f"
      [] OTHER -> c

\* uuid.UUID(match), a UUID being written in its canonical (lower case) form
UUID(match) == [k \in 1..Len(match) |-> ToLower(match[k])]

RECURSIVE DedupKeepAll(_, _, _)
\* a mutant of Dedup: the seen set is not consulted
DedupKeepAll(matches, citations, seen) ==
    IF matches = <<>> THEN citations
    ELSE DedupKeepAll(Tail(matches), Append(citations, UUID(Head(matches))), seen)

RECURSIVE Dedup(_, _, _)
\* the loop of extract_citations over the matches
Dedup(matches, citations, seen) ==
    IF matches = <<>> THEN citations
    ELSE LET uid == UUID(Head(matches))
         IN IF uid \notin seen
            THEN Dedup(Tail(matches), Append(citations, uid), seen \cup {uid})
            ELSE Dedup(Tail(matches), citations, seen)

\* ChatService.extract_citations
extract_citations(t) == Dedup(FindAll(t, 1), <<>>, {})

\* the identifier whose groups are all made of the character c
UuidOf(c) ==
    Rep(c, 8) \o <<"-">> \o Rep(c, 4) \o <<"-">> \o Rep(c, 4) \o <<"-">>
        \o Rep(c, 4) \o <<"-">> \o Rep(c, 12)

Marker(body) == <<"[", "[">> \o body \o <<"]", "]">>

(***************************************************************************)
(* Embedding and ChatService.retrieve_context                              *)
(***************************************************************************)
\* Python's None where a list or a string may stand
None == <<"None">>

DocIds == {"D1", "D2"}

\* Document.file_path: the file of a stored document
FileOf(d) == <<d, 0>>
ChunkIds == {UuidOf("a"), UuidOf("1"), UuidOf("2")}
Queries == {<<"q", "0">>, <<"q", "1">>}

Range(f) == { f[i] : i \in DOMAIN f }

similarity_top_k == 5

\* A vector is kept by its direction, <<d>>, one of the eighths of a turn;
\* <<>> is a NULL vector.  The cosine of the angle of two directions i
\* eighths apart, in thousandths:
CosineThousandths == <<1000, 707, 0, -707, -1000>>

EighthsApart(a, b) ==
    LET turn == 2 * (Len(CosineThousandths) - 1)
        d == (IF a >= b THEN a - b ELSE b - a) % turn
    IN IF d > turn \div 2 THEN turn - d ELSE d

\* c.vector <=> query_embedding, the cosine distance of pgvector (thousandths)
CosineDistance(v, q) == 1000 - CosineThousandths[EighthsApart(v[1], q[1]) + 1]

DigitValue(c) ==
    CASE c = "1" -> 1 [] c = "2" -> 2 [] c = "3" -> 3 [] c = "4" -> 4
      [] c = "5" -> 5 [] c = "6" -> 6 [] c = "7" -> 7 [] c = "8" -> 8
      [] c = "9" -> 9 [] OTHER -> 0

RECURSIVE DigitSum(_)
DigitSum(t) == IF t = <<>> THEN 0 ELSE DigitValue(Head(t)) + DigitSum(Tail(t))

\* EmbeddingService.generate_embedding: a vector that depends on the text alone
generate_embedding(t) == <<DigitSum(t) % (MaxDirection + 1)>>

\* a mutant of InScope: the document filter is not added to the query
InScopeUnfiltered(row, document_ids) == TRUE

\* "if document_ids and len(document_ids) > 0: AND c.document_id IN (...)"
InScope(row, document_ids) ==
    (document_ids # None /\ Len(document_ids) > 0)
        => row.document_id \in Range(document_ids)

\* FROM chunks c JOIN documents d ... WHERE c.vector IS NOT NULL [AND ...]
Selected(document_ids) ==
    { row \in chunk_rows : /\ row.document_id \in documents
                           /\ row.vector # <<>>
                           /\ InScope(row, document_ids) }

\* a mutant of Limit: the query carries no LIMIT
LimitForgotten(top_k, n) == n

\* LIMIT :top_k applied to n rows
Limit(top_k, n) == IF top_k < n THEN top_k ELSE n

\* RetrievedChunk(...) of a row
RetrievedChunk(row, q) ==
    LET sim == 1000 - CosineDistance(row.vector, q)
    IN [chunk_id |-> row.id,
        content |-> row.content,
        similarity |-> IF sim # 0 THEN sim ELSE 0,
        document_id |-> row.document_id]

\* the rows of the set that are nearest to q
Nearest(rows, q) ==
    { r \in rows : \A o \in rows :
          CosineDistance(r.vector, q) <= CosineDistance(o.vector, q) }

RECURSIVE OrderedRows(_, _, _)
\* the lists ORDER BY c.vector <=> q LIMIT n can answer (ties in any order)
OrderedRows(rows, q, n) ==
    IF n = 0 \/ rows = {} THEN {<<>>}
    ELSE UNION { { <<r>> \o rest : rest \in OrderedRows(rows \ {r}, q, n - 1) } :
                 r \in Nearest(rows, q) }

\* ChatService.retrieve_context: the lists of RetrievedChunk it can return;
\* top_k is <<>> (None) or <<k>>
retrieve_context(query, top_k, document_ids) ==
    LET k == IF top_k = <<>> THEN similarity_top_k ELSE top_k[1]
        q == generate_embedding(query)
    IN { [i \in DOMAIN r |-> RetrievedChunk(r[i], q)] :
            r \in OrderedRows(Selected(document_ids), q,
                             Limit(k, Cardinality(Selected(document_ids)))) }

NoRetrieval ==
    [called |-> FALSE, query |-> <<>>, top_k |-> <<>>, document_ids |-> None,
     chunks |-> <<>>]

(***************************************************************************)
(* Chat sessions, send_message and ChatService.chat                        *)
(***************************************************************************)
\* the rows of a query over the documents table, as a list
RECURSIVE ListOf(_)
ListOf(set) ==
    IF set = {} THEN <<>>
    ELSE LET x == CHOOSE y \in set : TRUE IN <<x>> \o ListOf(set \ {x})

RECURSIVE AppendMissing(_, _)
\* "for doc in documents: if doc not in session.documents: append(doc)"
AppendMissing(list, docs) ==
    IF docs = <<>> THEN list
    ELSE AppendMissing(IF Head(docs) \in Range(list) THEN list
                       ELSE Append(list, Head(docs)), Tail(docs))

\* db.query(Document).filter(Document.id.in_(ids)).all()
DocumentsIn(ids) == ListOf(Range(ids) \cap documents)

\* ChatSession(...): document_ids is the legacy column, documents the relation
ChatSession(id, document_ids, docs) ==
    [id |-> id, document_ids |-> document_ids, documents |-> docs,
     created_at |-> now, updated_at |-> now, deleted |-> FALSE]

\* a mutant of Message: the citations are not stored
MessageWithoutCitations(id, session_id, role, content, citations) ==
    [id |-> id, session_id |-> session_id, role |-> role, content |-> content,
     citations |-> <<>>, created_at |-> now]

\* Message(...)
Message(id, session_id, role, content, citations) ==
    [id |-> id, session_id |-> session_id, role |-> role, content |-> content,
     citations |-> citations, created_at |-> now]

\* session.messages: the messages of a session in order of creation
SessionMessages(session_id) ==
    SelectSeq(messages, LAMBDA m : m.session_id = session_id)

\* the parameters of ChatService.chat (besides self)
ChatParameters == {"session", "user_message", "db"}

\* the keyword arguments send_message calls ChatService.chat with
SendMessageKeywords == {"session", "user_message", "db", "document_ids"}

\* "Determine which documents to search" of send_message
SearchDocumentIds(filter_document_id, session_documents) ==
    IF filter_document_id # <<>> THEN <<filter_document_id[1]>>
    ELSE IF session_documents # <<>> THEN session_documents
    ELSE None

\* the document_ids ChatService.chat gives to retrieve_context
ScopeOfChat(session, search_document_ids) ==
    IF session.document_ids # <<>> THEN session.document_ids ELSE None

\* the values of settings.openai_api_key: none, the placeholder, a key
ApiKeys == {"", "sk-your-key-here", "sk-key"}

\* a mutant of llm: without a credential a mock model answers
llm_mock(key, constructed) ==
    IF key # "" /\ key # "sk-your-key-here" /\ ~constructed
    THEN [raised |-> TRUE, value |-> <<>>]
    ELSE [raised |-> FALSE, value |-> "mock"]

\* ChatService.llm: ChatOpenAI if a credential is set and the construction
\* succeeds, RuntimeError otherwise
llm(key, constructed) ==
    IF key # "" /\ key # "sk-your-key-here"
    THEN IF constructed THEN [raised |-> FALSE, value |-> "ChatOpenAI"]
         ELSE [raised |-> TRUE, value |-> <<>>]
    ELSE [raised |-> TRUE, value |-> <<>>]

\* a mutant of ValidCitations: the extracted citations are stored unvalidated
AllCitations(citations, retrieved_chunks) == citations

\* "valid_citations = [c for c in citations if c in valid_chunk_ids]"
ValidCitations(citations, retrieved_chunks) ==
    LET valid_chunk_ids == { retrieved_chunks[i].chunk_id : i \in DOMAIN retrieved_chunks }
    IN SelectSeq(citations, LAMBDA c : c \in valid_chunk_ids)

\* a mutant of ChatHistory: the message just stored is not left out
ChatHistoryWithCurrent(session_id, user_msg_id) ==
    LET ids == [i \in DOMAIN SessionMessages(session_id) |->
                   SessionMessages(session_id)[i].id]
    IN IF Len(ids) > 10 THEN SubSeq(ids, Len(ids) - 9, Len(ids)) ELSE ids

\* "[msg for msg in session.messages if msg.id != user_msg.id][-10:]"
ChatHistory(session_id, user_msg_id) ==
    LET others == SelectSeq(SessionMessages(session_id), LAMBDA m : m.id # user_msg_id)
        ids == [i \in DOMAIN others |-> others[i].id]
    IN IF Len(ids) > 10 THEN SubSeq(ids, Len(ids) - 9, Len(ids)) ELSE ids

\* ChatService.format_chat_history: "messages[-max_messages:] if
\* len(messages) > max_messages else messages", max_messages = 10
format_chat_history(msgs) ==
    IF Len(msgs) > 10 THEN SubSeq(msgs, Len(msgs) - 9, Len(msgs)) ELSE msgs

\* a call of send_message or of ChatService.chat
NewTurn(origin, session_id, message, filter_document_id, search_document_ids) ==
    [origin |-> origin, session_id |-> session_id, message |-> message,
     filter_document_id |-> filter_document_id,
     search_document_ids |-> search_document_ids,
     pc |-> "called", error |-> "", user_msg |-> <<>>, chat_history |-> <<>>,
     attached |-> <<>>, document_ids |-> None, retrieved_chunks |-> <<>>,
     llm_messages |-> <<>>,
     response_text |-> <<>>, citations |-> <<>>, assistant_msg |-> <<>>]

\* the texts the language model may answer with
GeneratedSegments ==
    { Marker(UuidOf("a")), Marker(UuidOf("1")), Marker(UuidOf("f")) }

GeneratedTexts ==
    { Concat(ss) : ss \in UNION { [1..n -> GeneratedSegments] : n \in 0..MaxMarkers } }

(***************************************************************************)
(* EmbeddingService                                                        *)
(***************************************************************************)
\* the outcome of an expression: it returns a value or it raises
Return(v) == [raised |-> FALSE, value |-> v]
Raise == [raised |-> TRUE, value |-> <<>>]

\* a mutant of Try: the except clause is missing
TryUncaught(outcome, fallback) == outcome

\* "try: return <outcome>  except Exception: return <fallback>"
Try(outcome, fallback) == IF outcome.raised THEN fallback ELSE outcome

\* the seeds the model tells apart (int(md5, 16) % 2**32 in the code)
SeedModulus == 5

\* int(hashlib.md5(text.encode()).hexdigest(), 16): a number of the text alone
Md5(t) == 3 * Len(t) + DigitSum(t)

\* a mutant of RandomSeed: the generator is left as the last call left it
RandomSeedForgotten(state, n) == state

\* random.seed(n): the generator restarts from n
RandomSeed(state, n) == <<n, 0>>

\* random.uniform(-1, 1) of a generator state: the value, in thousandths,
\* is decided by the seed and by the number of values drawn since
RandomUniform(state) == (((state[1] + 1) * (2 * state[2] + 3) * 97) % 2001) - 1000

RECURSIVE RandomDraw(_, _)
\* "[random.uniform(-1, 1) for _ in range(n)]": <<values, state afterwards>>
RandomDraw(state, n) ==
    IF n = 0 THEN <<<<>>, state>>
    ELSE LET rest == RandomDraw(<<state[1], state[2] + 1>>, n - 1)
         IN <<<<RandomUniform(state)>> \o rest[1], rest[2]>>

\* EmbeddingService._mock_embedding: <<vector, generator state afterwards>>
mock_embedding(state, t, d) ==
    RandomDraw(RandomSeed(state, Md5(t) % SeedModulus), d)

\* a mutant of MockEmbeddings: the texts are embedded last to first
MockEmbeddingsReversed(state, texts, d) ==
    LET Rev(q) == [i \in DOMAIN q |-> q[Len(q) + 1 - i]]
        F[i \in 0..Len(texts)] ==
            IF i = 0 THEN <<<<>>, state>>
            ELSE LET one == mock_embedding(F[i - 1][2], Rev(texts)[i], d)
                 IN <<Append(F[i - 1][1], one[1]), one[2]>>
    IN F[Len(texts)]

\* "[self._mock_embedding(t) for t in texts]": <<vectors, state afterwards>>
MockEmbeddings(state, texts, d) ==
    LET F[i \in 0..Len(texts)] ==
            IF i = 0 THEN <<<<>>, state>>
            ELSE LET one == mock_embedding(F[i - 1][2], texts[i], d)
                 IN <<Append(F[i - 1][1], one[1]), one[2]>>
    IN F[Len(texts)]

\* the vector the external model answers for a text (OpenAIEmbeddings)
embed_query(t, d) == [i \in 1..d |-> 2000 + Md5(t)]

\* OpenAIEmbeddings.embed_documents: one vector per text, in the order given
embed_documents(texts, d) == [i \in DOMAIN texts |-> embed_query(texts[i], d)]

\* the property embeddings_model: what it returns, which is also the value
\* of _embeddings_model afterwards; constructed says whether
\* OpenAIEmbeddings(...) can be built
EmbeddingsModel(model, key, constructed) ==
    IF model # "None" THEN Return(model)
    ELSE IF key # "" /\ key # "sk-your-key-here"
         THEN Try(IF constructed THEN Return("openai") ELSE Raise, Return("mock"))
         ELSE Return("mock")

\* EmbeddingService.generate_embeddings(texts) with the generator in state:
\* the outcome, the model used and the state of the generator afterwards;
\* answers says whether the call of the external model returns
generate_embeddings(model, key, constructed, answers, state, texts, d) ==
    LET m == EmbeddingsModel(model, key, constructed)
        mock == MockEmbeddings(state, texts, d)
    IN IF m.raised
       THEN [outcome |-> Raise, model |-> model, state |-> state]
       ELSE IF m.value = "mock"
       THEN [outcome |-> Return(mock[1]), model |-> m.value, state |-> mock[2]]
       ELSE LET external == IF answers THEN Return(embed_documents(texts, d)) ELSE Raise
                outcome == Try(external, Return(mock[1]))
            IN [outcome |-> outcome, model |-> m.value,
                state |-> IF external.raised /\ ~outcome.raised THEN mock[2] ELSE state]

\* EmbeddingService.generate_embedding(text), likewise
generate_embedding_call(model, key, constructed, answers, state, t, d) ==
    LET m == EmbeddingsModel(model, key, constructed)
        mock == mock_embedding(state, t, d)
    IN IF m.raised
       THEN [outcome |-> Raise, model |-> model, state |-> state]
       ELSE IF m.value = "mock"
       THEN [outcome |-> Return(mock[1]), model |-> m.value, state |-> mock[2]]
       ELSE LET external == IF answers THEN Return(embed_query(t, d)) ELSE Raise
                outcome == Try(external, Return(mock[1]))
            IN [outcome |-> outcome, model |-> m.value,
                state |-> IF external.raised /\ ~outcome.raised THEN mock[2] ELSE state]

\* the texts given to the embedding service
EmbedTexts == { <<"t", "1">>, <<"u", "2">> }

EmbedIdle ==
    /\ openai_api_key = ""
    /\ dimension = 1
    /\ embeddings_model = "None"
    /\ random_state = <<0, 0>>
    /\ embed_calls = <<>>

(***************************************************************************)
(* extract_citations applied to bounded inputs                             *)
(***************************************************************************)
Segments ==
    { Marker(UuidOf("a")),
      Marker(UuidOf("A")),
      Marker(UuidOf("1")),
      Marker(SubSeq(UuidOf("a"), 1, 35)),     \* last group one digit short
      Marker(<<"a">> \o UuidOf("1")),         \* first group one digit long
      Marker(UuidOf("g")),                    \* not hexadecimal
      <<" ", "x", ".", " ">>,
      <<"[", "[">> }

SegmentSeqs == UNION { [1..n -> Segments] : n \in 0..MaxSegments }

ExtractIdle ==
    /\ response_text = <<>>
    /\ extracted = "none"
    /\ extract_pc = "idle"

\* an empty database and no call made
StoreIdle ==
    /\ documents = {}
    /\ chunk_rows = {}
    /\ used_chunk_ids = {}
    /\ files = {}
    /\ uploads = <<>>
    /\ runs = <<>>
    /\ processed = [d \in documents |-> <<>>]
    /\ retrieval = NoRetrieval

ChatIdle ==
    /\ sessions = <<>>
    /\ messages = <<>>
    /\ turns = <<>>
    /\ now = 0

(***************************************************************************)
(* The chunker applied to bounded inputs                                   *)
(***************************************************************************)
Pieces ==
    { <<"A", "b", ".", " ">>,
      <<"E", "f", "g", "h", ".", " ">>,
      <<"c", "d", " ">>,
      <<"\n", "\n">>,
      <<" ">> }

PieceSeqs == UNION { [1..n -> Pieces] : n \in 0..MaxPieces }

ChunkerIdle ==
    /\ text = <<>>
    /\ target_tokens = 1
    /\ overlap_tokens = 0
    /\ text_chunks = "none"
    /\ chunker_pc = "idle"

InitChunker ==
    /\ text \in { Concat(ps) : ps \in PieceSeqs }
    /\ target_tokens \in 1..MaxTargetTokens
    /\ overlap_tokens \in 0..MaxOverlapTokens
    /\ text_chunks = "none"
    /\ chunker_pc = "ready"
    /\ ExtractIdle
    /\ StoreIdle
    /\ ChatIdle
    /\ EmbedIdle

\* a call of chunk_text
ChunkText ==
    /\ chunker_pc = "ready"
    /\ text_chunks' = chunk_text(text)
    /\ chunker_pc' = "done"
    /\ UNCHANGED <<text, target_tokens, overlap_tokens>>
    /\ UNCHANGED <<extractVars, storeVars, chatVars, retrieval, embedVars>>

NextChunker == ChunkText

SpecChunker == InitChunker /\ [][NextChunker]_vars

(***************************************************************************)
(* Claims about the chunker (checked under SpecChunker)                    *)
(***************************************************************************)
Sentences == split_into_sentences(text)

\* sentences a..b of the input joined by single spaces
SentenceRun(a, b) == Join(SubSeq(Sentences, a, b), <<" ">>)

\* the last n characters of s, the whole of s when it is not longer than n
LastChars(s, n) ==
    IF Len(s) <= n THEN s ELSE SubSeq(s, Len(s) - n + 1, Len(s))

IsSentenceRun(s) ==
    \E a \in 1..Len(Sentences) : \E b \in a..Len(Sentences) : s = SentenceRun(a, b)

\* C7 as stated: every chunk starts at the start and ends at the end of a
\* sentence, its content being a run of whole sentences of the input.
C7_NoBoundaryInsideSentence ==
    chunker_pc = "done" =>
        \A k \in 1..Len(text_chunks) : IsSentenceRun(text_chunks[k].content)

\* C7 amended: every chunk ends at the end of a sentence and the first chunk
\* starts at the start of one; a chunk after the first is a tail of its
\* predecessor's content (the overlap, which may start inside a sentence)
\* followed by a space and a run of whole sentences.
C7_ChunksEndWithWholeSentences ==
    chunker_pc = "done" =>
        \A k \in 1..Len(text_chunks) :
            LET c == text_chunks[k].content
            IN IF k = 1 THEN IsSentenceRun(c)
               ELSE LET prev == text_chunks[k - 1].content
                    IN \E i \in 1..Len(prev) :
                        \E a \in 1..Len(Sentences) : \E b \in a..Len(Sentences) :
                            /\ prev[i] \notin Whitespace
                            /\ c = SubSeq(prev, i, Len(prev)) \o <<" ">>
                                   \o SentenceRun(a, b)

\* a second chunk that starts inside a sentence has been produced
C7_Witness ==
    /\ chunker_pc = "done"
    /\ Len(text_chunks) >= 2
    /\ ~IsSentenceRun(text_chunks[2].content)
    /\ \A i \in 1..Len(Sentences) : ~IsPrefix(Sentences[i], text_chunks[2].content)

\* C8 as stated: every chunk after the first begins with the last
\* overlap_chars characters of the preceding chunk's content (the whole
\* content when it is shorter).
C8_OverlapIsExactTail ==
    chunker_pc = "done" =>
        \A k \in 2..Len(text_chunks) :
            IsPrefix(LastChars(text_chunks[k - 1].content,
                               overlap_tokens * chars_per_token),
                     text_chunks[k].content)

\* C8 amended: every chunk after the first begins with the last overlap_chars
\* characters of the preceding chunk's content less their leading whitespace
\* (with the whole preceding content when it is shorter than overlap_chars).
C8_OverlapIsStrippedTail ==
    chunker_pc = "done" =>
        \A k \in 2..Len(text_chunks) :
            IsPrefix(LStrip(LastChars(text_chunks[k - 1].content,
                                      overlap_tokens * chars_per_token)),
                     text_chunks[k].content)

\* a chunk follows one whose overlap window starts with a space
C8_Witness ==
    /\ chunker_pc = "done"
    /\ Len(text_chunks) >= 2
    /\ overlap_tokens > 0
    /\ Len(text_chunks[1].content) > overlap_tokens * chars_per_token
    /\ Head(LastChars(text_chunks[1].content,
                      overlap_tokens * chars_per_token)) \in Whitespace

RECURSIVE SentencesCovered(_, _)
\* chunks k.. end with consecutive runs of whole sentences that start at
\* sentence a and use up the sentences of the input
SentencesCovered(k, a) ==
    IF k > Len(text_chunks) THEN a = Len(Sentences) + 1
    ELSE \E b \in a..Len(Sentences) :
            /\ LET c == text_chunks[k].content
                   run == SentenceRun(a, b)
               IN c = run \/ IsSuffix(<<" ">> \o run, c)
            /\ SentencesCovered(k + 1, b + 1)

\* C9: every sentence is contained whole in a chunk, in input order, a
\* sentence longer than the target included, and the last accumulation is
\* emitted, so that the chunks' sentence runs use up the sentences.
C9_EverySentenceEmittedWhole ==
    chunker_pc = "done" => SentencesCovered(1, 1)

\* a sentence longer than the target size went through a multi-chunk run
C9_Witness ==
    /\ chunker_pc = "done"
    /\ Len(text_chunks) >= 2
    /\ \E i \in 1..Len(Sentences) :
          Len(Sentences[i]) > target_tokens * chars_per_token
    /\ IsSuffix(Sentences[Len(Sentences)], text_chunks[Len(text_chunks)].content)

\* C10: the empty string and every whitespace-only string give no chunk.
C10_BlankTextGivesNoChunks ==
    (chunker_pc = "done" /\ \A i \in 1..Len(text) : text[i] \in Whitespace)
        => text_chunks = <<>>

\* a non-empty whitespace-only text has been chunked
C10_Witness ==
    /\ chunker_pc = "done"
    /\ Len(text) >= 2
    /\ \A i \in 1..Len(text) : text[i] \in Whitespace
    /\ text_chunks = <<>>

(***************************************************************************)
(* The chunker applied to short sentences (SpecSizes)                      *)
(***************************************************************************)
\* pieces that give sentences of one, two and five characters
SizePieces ==
    { <<"E", "f", "g", "h", ".", " ">>,
      <<"c", "\n", "\n">>,
      <<"c", "d", " ">> }

InitSizes ==
    /\ text \in { Concat(ps) : ps \in UNION { [1..n -> SizePieces] : n \in 0..MaxPieces } }
    /\ target_tokens \in 1..MaxTargetTokens
    /\ overlap_tokens \in 0..MaxOverlapTokens
    /\ text_chunks = "none"
    /\ chunker_pc = "ready"
    /\ ExtractIdle
    /\ StoreIdle
    /\ ChatIdle
    /\ EmbedIdle

\* chunk_text is applied to every text and every pair of sizes
SpecSizes == InitSizes /\ [][ChunkText]_vars

\* the locals of chunk_text after n iterations of its loop
LoopAfter(n) ==
    Loop(LoopInit, SubSeq(Sentences, 1, n), target_tokens * chars_per_token,
         overlap_tokens * chars_per_token)

\* the iteration that closed chunk k: the sentence of that iteration is the
\* first of the next chunk; one past the last sentence for the last chunk
ClosedAt(k) ==
    IF \E n \in 1..Len(Sentences) : Len(LoopAfter(n).chunks) >= k
    THEN CHOOSE n \in 1..Len(Sentences) :
            Len(LoopAfter(n).chunks) >= k /\ Len(LoopAfter(n - 1).chunks) < k
    ELSE Len(Sentences) + 1

\* the first sentence of chunk k, the number of its sentences (its overlap
\* prefix is not one of them)
FirstSentenceOf(k) == IF k = 1 THEN 1 ELSE ClosedAt(k - 1)
SentencesOf(k) == ClosedAt(k) - FirstSentenceOf(k)

\* C25: every chunk that holds two or more sentences besides its overlap
\* prefix has a content of at most target_chars characters, and a chunk whose
\* content is longer holds one sentence that is itself longer than
\* target_chars.
C25_OnlyOverlongSentenceExceedsTarget ==
    chunker_pc = "done" =>
        \A k \in 1..Len(text_chunks) :
            /\ SentencesOf(k) >= 2 =>
                  Len(text_chunks[k].content) <= target_tokens * chars_per_token
            /\ Len(text_chunks[k].content) > target_tokens * chars_per_token =>
                  /\ SentencesOf(k) = 1
                  /\ Len(Sentences[FirstSentenceOf(k)]) > target_tokens * chars_per_token

(***************************************************************************)
(* Citation extraction (SpecExtract)                                       *)
(***************************************************************************)
InitExtract ==
    /\ ChunkerIdle
    /\ response_text \in { Concat(ss) : ss \in SegmentSeqs }
    /\ extracted = "none"
    /\ extract_pc = "ready"
    /\ StoreIdle
    /\ ChatIdle
    /\ EmbedIdle

\* a call of extract_citations
ExtractCitations ==
    /\ extract_pc = "ready"
    /\ extracted' = extract_citations(response_text)
    /\ extract_pc' = "done"
    /\ UNCHANGED response_text
    /\ UNCHANGED <<chunkerVars, storeVars, chatVars, retrieval, embedVars>>

NextExtract == ExtractCitations

SpecExtract == InitExtract /\ [][NextExtract]_vars

\* a well-formed marker [[8-4-4-4-12 hexadecimal digits]] starts at index i
WellFormedAt(s, i) ==
    /\ i + 39 <= Len(s)
    /\ s[i] = "[" /\ s[i + 1] = "["
    /\ s[i + 38] = "]" /\ s[i + 39] = "]"
    /\ \A k \in 1..36 :
          IF k \in {9, 14, 19, 24} THEN s[i + 1 + k] = "-"
          ELSE s[i + 1 + k] \in LowerHex \cup UpperHex \cup Digits

\* the identifier of the marker at index i, identifiers being case-insensitive
IdentifierAt(s, i) == [k \in 1..36 |-> ToLower(s[i + 1 + k])]

MarkerStarts(s) == { i \in 1..Len(s) : WellFormedAt(s, i) }

FirstMarkerOf(s, id) ==
    CHOOSE i \in MarkerStarts(s) :
        /\ IdentifierAt(s, i) = id
        /\ \A j \in MarkerStarts(s) : IdentifierAt(s, j) = id => i <= j

\* C2: extract_citations returns the identifiers of the well-formed markers,
\* each once, in the order of their first occurrence; nothing else (a marker
\* of a wrong length or with wrong characters) contributes an identifier.
C2_ExtractFirstSeenOnce ==
    extract_pc = "done" =>
        /\ { extracted[k] : k \in 1..Len(extracted) }
              = { IdentifierAt(response_text, i) : i \in MarkerStarts(response_text) }
        /\ \A j, k \in 1..Len(extracted) :
              j < k => /\ extracted[j] # extracted[k]
                       /\ FirstMarkerOf(response_text, extracted[j])
                              < FirstMarkerOf(response_text, extracted[k])

\* a text with a repeated marker (once in upper case), a second identifier
\* after it and a malformed marker has been scanned
C2_Witness ==
    /\ extract_pc = "done"
    /\ response_text = Marker(UuidOf("A")) \o Marker(UuidOf("g"))
                           \o Marker(UuidOf("a")) \o Marker(UuidOf("1"))
    /\ extracted = <<UuidOf("a"), UuidOf("1")>>

(***************************************************************************)
(* Retrieval over a stored set of documents and chunks (SpecRetrieve)      *)
(***************************************************************************)
Vectors == {<<>>} \cup { <<d>> : d \in 0..MaxDirection }

ContentOf(id) == <<"t", id[1]>>

MoreChunkIds == {UuidOf("b"), UuidOf("3"), UuidOf("4")}

StoredRow(id, document_id, vector) ==
    [id |-> id, document_id |-> document_id, content |-> ContentOf(id),
     vector |-> vector, chunk_index |-> 0]

\* three chunks, each of any document and with any vector or none
SmallChunkSets ==
    { { StoredRow(id, f[id][1], f[id][2]) : id \in ChunkIds } :
      f \in [ChunkIds -> DocIds \X Vectors] }

\* six chunks (more than similarity_top_k), each of any document, in the
\* direction of their content
LargeChunkSets ==
    { { StoredRow(id, f[id], generate_embedding(ContentOf(id)))
          : id \in ChunkIds \cup MoreChunkIds } :
      f \in [ChunkIds \cup MoreChunkIds -> DocIds] }

\* the rows the table chunks may hold for the documents of DocIds
StoredChunkSets == SmallChunkSets \cup LargeChunkSets

DocumentIdLists == {None, <<>>, <<"D1">>, <<"D2">>, <<"D1", "D2">>}

InitRetrieve ==
    /\ ChunkerIdle
    /\ ExtractIdle
    /\ ChatIdle
    /\ EmbedIdle
    /\ documents = DocIds
    /\ chunk_rows \in StoredChunkSets
    /\ used_chunk_ids = { row.id : row \in chunk_rows }
    /\ files = { FileOf(d) : d \in DocIds }
    /\ uploads = <<>>
    /\ runs = <<>>
    /\ processed = [d \in documents |-> <<0>>]
    /\ retrieval = NoRetrieval

\* a call of retrieve_context
RetrieveContext ==
    /\ ~retrieval.called
    /\ \E query \in Queries,
          top_k \in {<<>>} \cup { <<k>> : k \in 0..MaxTopK },
          document_ids \in DocumentIdLists :
        \E chunks \in retrieve_context(query, top_k, document_ids) :
            retrieval' = [called |-> TRUE, query |-> query, top_k |-> top_k,
                          document_ids |-> document_ids, chunks |-> chunks]
    /\ UNCHANGED <<chunkerVars, extractVars, storeVars, chatVars, embedVars>>

NextRetrieve == RetrieveContext

SpecRetrieve == InitRetrieve /\ [][NextRetrieve]_vars

\* the stored row of a chunk id
RowOf(id) == CHOOSE row \in chunk_rows : row.id = id

\* C5: a call with a non-empty document scope returns only chunks whose
\* document_id is in the scope.
C5_ScopedRetrievalStaysInScope ==
    (retrieval.called /\ retrieval.document_ids # None
       /\ retrieval.document_ids # <<>>) =>
        \A i \in DOMAIN retrieval.chunks :
            /\ retrieval.chunks[i].document_id \in Range(retrieval.document_ids)
            /\ RowOf(retrieval.chunks[i].chunk_id).document_id
                   \in Range(retrieval.document_ids)

\* a call scoped to D1 answered with chunks while D2 holds chunks with a vector
C5_Witness ==
    /\ retrieval.called
    /\ retrieval.document_ids = <<"D1">>
    /\ retrieval.chunks # <<>>
    /\ \E row \in chunk_rows : row.document_id = "D2" /\ row.vector # <<>>

\* C6: a call returns at most top_k chunks (5 when top_k is not given), each
\* stored with a vector, in an order of non-increasing similarity.
C6_AtMostTopKByDescendingSimilarity ==
    retrieval.called =>
        /\ Len(retrieval.chunks)
              <= (IF retrieval.top_k = <<>> THEN 5 ELSE retrieval.top_k[1])
        /\ \A i \in DOMAIN retrieval.chunks :
              RowOf(retrieval.chunks[i].chunk_id).vector # <<>>
        /\ \A i, j \in DOMAIN retrieval.chunks :
              i < j => retrieval.chunks[i].similarity >= retrieval.chunks[j].similarity

\* a call without top_k found six chunks with a vector and returned five of
\* them, the first more similar than the last
C6_Witness ==
    /\ retrieval.called
    /\ retrieval.top_k = <<>>
    /\ Len(retrieval.chunks) = 5
    /\ retrieval.chunks[1].similarity > retrieval.chunks[5].similarity
    /\ Cardinality(Selected(retrieval.document_ids)) = 6

(***************************************************************************)
(* The chat service over a database (Spec)                                 *)
(***************************************************************************)
\* the number of chunks the file of a document is parsed into
ParsedChunks(d) == IF d = "D1" THEN 2 ELSE 1

\* the chunks of the documents of DocIds once each was processed, D1 first
ProcessedChunks ==
    LET ids == ListOf(ChunkIds)
        doc == [i \in DOMAIN ids |-> IF i <= ParsedChunks("D1") THEN "D1" ELSE "D2"]
    IN { [id |-> ids[i], document_id |-> doc[i], content |-> <<"t", ids[i][1]>>,
          vector |-> generate_embedding(<<"t", ids[i][1]>>),
          chunk_index |-> IF doc[i] = "D1" THEN i - 1 ELSE i - 1 - ParsedChunks("D1")]
         : i \in DOMAIN ids }

\* The documents table holds the rows of DocIds, not yet processed.
InitIngest ==
    /\ ChunkerIdle
    /\ ExtractIdle
    /\ ChatIdle
    /\ EmbedIdle
    /\ documents = DocIds
    /\ chunk_rows = {}
    /\ used_chunk_ids = {}
    /\ files = { FileOf(d) : d \in DocIds }
    /\ uploads = <<>>
    /\ runs = <<>>
    /\ processed = [d \in documents |-> <<>>]
    /\ retrieval = NoRetrieval

\* The documents of DocIds are stored and processed; no session exists.
Init ==
    /\ ChunkerIdle
    /\ ExtractIdle
    /\ ChatIdle
    /\ openai_api_key \in ApiKeys
    /\ dimension = 1
    /\ embeddings_model = "None"
    /\ random_state = <<0, 0>>
    /\ embed_calls = <<>>
    /\ documents = DocIds
    /\ chunk_rows = ProcessedChunks
    /\ used_chunk_ids = ChunkIds
    /\ files = { FileOf(d) : d \in DocIds }
    /\ uploads = <<>>
    /\ runs = <<>>
    /\ processed = [d \in documents |-> <<0>>]
    /\ retrieval = NoRetrieval

othersOfChat == <<chunkerVars, extractVars, retrieval, embedVars>>

\* the columns of Document
DocumentColumns ==
    {"id", "filename", "original_filename", "file_path", "file_size", "page_count",
     "upload_date", "processed", "metadata_"}

\* the contents of the files uploaded
Contents == {"B1", "B2"}

\* calculate_file_hash
Sha256(content) == <<"sha256", content>>

\* POST /documents/upload: the file is written and hashed; then
\* "Document.file_hash == file_hash" is evaluated, which raises AttributeError
\* as Document has no such column, and nothing after it is executed
UploadDocument(content, pdf) ==
    /\ Len(uploads) < MaxUploads
    /\ "file_hash" \notin DocumentColumns
    /\ LET file_path == <<"F", Len(uploads) + 1>>
       IN IF ~pdf
          THEN /\ uploads' = Append(uploads,
                      [content |-> content, file_path |-> <<>>, file_hash |-> <<>>,
                       response |-> "HTTP 400"])
               /\ UNCHANGED files
          ELSE /\ files' = files \cup {file_path}
               /\ uploads' = Append(uploads,
                      [content |-> content, file_path |-> file_path,
                       file_hash |-> Sha256(content), response |-> "AttributeError"])
    /\ UNCHANGED <<documents, chunk_rows, used_chunk_ids, runs, processed, chatVars,
                   othersOfChat>>

\* a mutant of ChunksAfterDelete: the chunks of the document are not deleted
ChunksNotDeleted(rows, d) == rows

\* "db.query(Chunk).filter(Chunk.document_id == document_id).delete()"
ChunksAfterDelete(rows, d) == { row \in rows : row.document_id # d }

\* the tables and the figures the file of a document holds
ParsedTables(d) == IF d = "D1" THEN 1 ELSE 0
ParsedImages(d) == IF d = "D1" THEN 1 ELSE 0

\* the steps of PDFProcessor.process_pdf after the conversion that can fail on
\* a document: those that find something in it
ExtractionSteps(d) ==
    {"text"} \cup (IF ParsedTables(d) > 0 THEN {"tables"} ELSE {})
             \cup (IF ParsedImages(d) > 0 THEN {"images"} ELSE {})

\* _extract_text, _extract_tables, _extract_images: "except Exception" logs a
\* warning and returns what there is, "" or the list still empty
Extracted(n, step, failed) == IF step \in failed THEN 0 ELSE n

\* all_chunks of IngestionService.process_document: the text chunks, then the
\* tables, then the images, chunk_index counting from 0
AllChunks(texts, tables, images) ==
    [i \in 1..(texts + tables + images) |->
        [media_type |-> IF i <= texts THEN "text"
                        ELSE IF i <= texts + tables THEN "table" ELSE "image",
         chunk_index |-> i - 1]]

\* the ids uuid4 hands out, in this order
IdPool == <<"a", "1", "2", "3", "4", "5", "6", "7", "8", "9", "b", "c", "d", "e", "f", "0">>

\* an ingestion run of a document, just started; overlapped says that another
\* run of the document was in progress during it, superseded that the
\* document was processed again or deleted after it, failed_steps which
\* steps of the extraction failed in it
IngestionRun(d) ==
    [document_id |-> d, state |-> "running", chunk_ids |-> <<>>,
     overlapped |-> \E i \in DOMAIN runs :
                        runs[i].document_id = d /\ runs[i].state = "running",
     superseded |-> FALSE, failed_steps |-> {}]

\* POST /documents/{id}/process: the chunks of the document are deleted, the
\* deletion is committed, and IngestionService.process_document starts
ProcessDocument(d) ==
    /\ d \in documents
    /\ Len(runs) < MaxRuns
    /\ chunk_rows' = ChunksAfterDelete(chunk_rows, d)
    /\ runs' = Append([i \in DOMAIN runs |->
                          IF runs[i].document_id # d THEN runs[i]
                          ELSE IF runs[i].state = "running"
                               THEN [runs[i] EXCEPT !.overlapped = TRUE]
                               ELSE [runs[i] EXCEPT !.superseded = TRUE]],
                      IngestionRun(d))
    /\ UNCHANGED <<documents, used_chunk_ids, files, uploads, processed, chatVars,
                   othersOfChat>>

\* IngestionService.process_document: the file is converted, the steps of
\* failed fail in the extraction, the chunks are created, the document is
\* marked processed, and all is committed
ProcessDocumentStore(r, failed) ==
    /\ r \in DOMAIN runs
    /\ runs[r].state = "running"
    /\ runs[r].document_id \in documents
    /\ failed \subseteq ExtractionSteps(runs[r].document_id)
    /\ LET d == runs[r].document_id
           all_chunks == AllChunks(Extracted(ParsedChunks(d), "text", failed),
                                   Extracted(ParsedTables(d), "tables", failed),
                                   Extracted(ParsedImages(d), "images", failed))
           k == Cardinality(used_chunk_ids)
           ids == [i \in DOMAIN all_chunks |-> UuidOf(IdPool[k + i])]
           content == [i \in DOMAIN all_chunks |->
                          <<all_chunks[i].media_type, IdPool[k + i]>>]
       IN /\ k + Len(all_chunks) <= Len(IdPool)
          /\ chunk_rows' = chunk_rows \cup
                { [id |-> ids[i], document_id |-> d, content |-> content[i],
                   vector |-> generate_embedding(content[i]),
                   media_type |-> all_chunks[i].media_type,
                   chunk_index |-> all_chunks[i].chunk_index] : i \in DOMAIN all_chunks }
          /\ used_chunk_ids' = used_chunk_ids \cup Range(ids)
          /\ runs' = [runs EXCEPT ![r].state = "done", ![r].chunk_ids = ids,
                                  ![r].failed_steps = failed]
          /\ processed' = [processed EXCEPT ![d] = <<r>>]
    /\ UNCHANGED <<documents, files, uploads, chatVars, othersOfChat>>

\* IngestionService.process_document raises (the file is missing or cannot be
\* converted, the document was deleted meanwhile): rollback, HTTP 500
ProcessDocumentFails(r) ==
    /\ r \in DOMAIN runs
    /\ runs[r].state = "running"
    /\ runs' = [runs EXCEPT ![r].state = "failed",
                            ![r].failed_steps = {"conversion"}]
    /\ UNCHANGED <<documents, chunk_rows, used_chunk_ids, files, uploads, processed,
                   chatVars, othersOfChat>>

\* Document.chunks, cascade="all, delete-orphan": the chunks left when the
\* document is deleted
ChunksOfOthers(rows, d) == { row \in rows : row.document_id # d }

\* a mutant of MessagesOfOthers: the messages of every session are deleted
MessagesOfNone(msgs, session_id) == <<>>

\* ChatSession.messages, cascade="all, delete-orphan": the messages left when
\* the session is deleted
MessagesOfOthers(msgs, session_id) ==
    SelectSeq(msgs, LAMBDA m : m.session_id # session_id)

\* DELETE /documents/{id}: the file is unlinked and the row deleted, with its
\* chunks (cascade of Document.chunks) and its rows of session_documents
DeleteDocument(d) ==
    /\ d \in documents
    /\ documents' = documents \ {d}
    /\ files' = files \ {FileOf(d)}
    /\ chunk_rows' = ChunksOfOthers(chunk_rows, d)
    /\ sessions' = [i \in DOMAIN sessions |->
                       [sessions[i] EXCEPT
                           !.documents = SelectSeq(@, LAMBDA x : x # d)]]
    /\ runs' = [i \in DOMAIN runs |->
                   IF runs[i].document_id = d /\ runs[i].state # "running"
                   THEN [runs[i] EXCEPT !.superseded = TRUE] ELSE runs[i]]
    /\ processed' = [x \in documents \ {d} |-> processed[x]]
    /\ UNCHANGED <<used_chunk_ids, uploads, messages, turns, now, othersOfChat>>

\* the ids of the sessions stored
SessionIds == { i \in DOMAIN sessions : ~sessions[i].deleted }

\* DELETE /chat/sessions/{id}: the row is deleted, with its messages (cascade
\* of ChatSession.messages) and its rows of session_documents
DeleteSession(session_id) ==
    /\ session_id \in SessionIds
    /\ sessions' = [sessions EXCEPT ![session_id].deleted = TRUE,
                                    ![session_id].documents = <<>>]
    /\ messages' = MessagesOfOthers(messages, session_id)
    /\ UNCHANGED <<turns, now, storeVars, othersOfChat>>

\* POST /chat/sessions
CreateSession(document_ids) ==
    /\ Len(sessions) < MaxSessions
    /\ sessions' = Append(sessions,
           ChatSession(Len(sessions) + 1, document_ids,
                       IF document_ids # <<>> THEN DocumentsIn(document_ids) ELSE <<>>))
    /\ now' = now + 1
    /\ UNCHANGED <<messages, turns, storeVars, othersOfChat>>

\* POST /chat/sessions/{session_id}/documents/{document_id}
AttachDocumentToSession(session_id, document_id) ==
    /\ session_id \in SessionIds
    /\ document_id \in documents
    /\ document_id \notin Range(sessions[session_id].documents)
    /\ sessions' = [sessions EXCEPT ![session_id].documents = Append(@, document_id)]
    /\ UNCHANGED <<messages, turns, now, storeVars, othersOfChat>>

\* POST /chat/message with the id of no session: 404
SendMessageNotFound(session_id, message) ==
    /\ Len(turns) < MaxTurns
    /\ session_id \notin SessionIds
    /\ turns' = Append(turns,
           [NewTurn("send_message", <<>>, message, <<>>, None)
               EXCEPT !.pc = "failed", !.error = "HTTP 404"])
    /\ UNCHANGED <<sessions, messages, now, storeVars, othersOfChat>>

\* POST /chat/message: the session is found or created, the documents are
\* attached, the documents to search are determined and ChatService.chat is
\* called with the keyword document_ids
SendMessage(request_session_id, message, attach_document_ids, filter_document_id) ==
    /\ Len(turns) < MaxTurns
    /\ IF request_session_id # <<>>
       THEN request_session_id[1] \in SessionIds
       ELSE Len(sessions) < MaxSessions
    /\ LET session_id == IF request_session_id # <<>> THEN request_session_id[1]
                         ELSE Len(sessions) + 1
           found == IF request_session_id # <<>> THEN sessions
                    ELSE Append(sessions, ChatSession(session_id, <<>>, <<>>))
           attached == IF attach_document_ids # <<>>
                       THEN AppendMissing(found[session_id].documents,
                                          DocumentsIn(attach_document_ids))
                       ELSE found[session_id].documents
           search_document_ids == SearchDocumentIds(filter_document_id, attached)
           turn == NewTurn("send_message", <<session_id>>, message,
                           filter_document_id, search_document_ids)
       IN /\ sessions' = [found EXCEPT ![session_id].documents = attached]
          /\ now' = IF request_session_id # <<>> THEN now ELSE now + 1
          /\ turns' = Append(turns,
                 IF SendMessageKeywords \subseteq ChatParameters
                 THEN turn
                 ELSE \* TypeError: chat() got an unexpected keyword argument,
                      \* caught by "except Exception": HTTP 500
                      [turn EXCEPT !.pc = "failed", !.error = "TypeError"])
    /\ UNCHANGED <<messages, storeVars, othersOfChat>>

\* ChatService.chat called with (session, user_message, db)
ChatCall(session_id, message) ==
    /\ Len(turns) < MaxTurns
    /\ session_id \in SessionIds
    /\ turns' = Append(turns, NewTurn("chat", <<session_id>>, message, <<>>, None))
    /\ UNCHANGED <<sessions, messages, now, storeVars, othersOfChat>>

\* ChatService.chat: "Save user message"
ChatSaveUserMessage(t) ==
    /\ t \in DOMAIN turns
    /\ turns[t].pc = "called"
    /\ turns[t].session_id[1] \in SessionIds
    /\ LET id == now + 1
       IN /\ messages' = Append(messages,
                 Message(id, turns[t].session_id[1], "user", turns[t].message, <<>>))
          /\ turns' = [turns EXCEPT ![t].pc = "received", ![t].user_msg = <<id>>]
    /\ now' = now + 1
    /\ UNCHANGED <<sessions, storeVars, othersOfChat>>

\* ChatService.chat: "Get chat history", "Retrieve relevant chunks"
ChatRetrieve(t) ==
    /\ t \in DOMAIN turns
    /\ turns[t].pc = "received"
    /\ turns[t].session_id[1] \in SessionIds
    /\ LET session == sessions[turns[t].session_id[1]]
           document_ids == ScopeOfChat(session, turns[t].search_document_ids)
       IN \E chunks \in retrieve_context(turns[t].message, <<>>, document_ids) :
            turns' = [turns EXCEPT
                ![t].pc = "context_built",
                ![t].chat_history = ChatHistory(session.id, turns[t].user_msg[1]),
                ![t].attached = session.documents,
                ![t].document_ids = document_ids,
                ![t].retrieved_chunks = chunks]
    /\ UNCHANGED <<sessions, messages, now, storeVars, othersOfChat>>

\* retrieve_context raises (the query fails): the turn ends with the error
ChatRetrieveFails(t) ==
    /\ t \in DOMAIN turns
    /\ turns[t].pc = "received"
    /\ turns[t].session_id[1] \in SessionIds
    /\ turns' = [turns EXCEPT ![t].pc = "failed", ![t].error = "retrieval"]
    /\ UNCHANGED <<sessions, messages, now, storeVars, othersOfChat>>

\* ChatService.chat on a session deleted meanwhile: the insert of a Message
\* violates the foreign key (IntegrityError), the reload of the session finds
\* no row (ObjectDeletedError)
ChatSessionDeleted(t) ==
    /\ t \in DOMAIN turns
    /\ turns[t].pc \in {"called", "received", "generated"}
    /\ turns[t].session_id[1] \notin SessionIds
    /\ turns' = [turns EXCEPT
           ![t].pc = "failed",
           ![t].error = IF turns[t].pc = "received" THEN "ObjectDeletedError"
                        ELSE "IntegrityError"]
    /\ UNCHANGED <<sessions, messages, now, storeVars, othersOfChat>>

\* ChatService.generate_response: the model answers, the citations are
\* extracted and validated
ChatGenerate(t) ==
    /\ t \in DOMAIN turns
    /\ turns[t].pc = "context_built"
    /\ ~llm(openai_api_key, TRUE).raised
    /\ \E answer \in GeneratedTexts :
          turns' = [turns EXCEPT
              ![t].pc = "generated",
              ![t].llm_messages =
                  [chat_history |-> format_chat_history(turns[t].chat_history),
                   user_query |-> turns[t].message],
              ![t].response_text = answer,
              ![t].citations = ValidCitations(extract_citations(answer),
                                              turns[t].retrieved_chunks)]
    /\ UNCHANGED <<sessions, messages, now, storeVars, othersOfChat>>

\* ChatService.generate_response raises: the llm property raises RuntimeError
\* (no credential, or ChatOpenAI cannot be constructed) or the invocation of
\* the model fails; the exception is logged and raised again
ChatGenerateFails(t) ==
    /\ t \in DOMAIN turns
    /\ turns[t].pc = "context_built"
    /\ \E constructed \in BOOLEAN :
          turns' = [turns EXCEPT
              ![t].pc = "failed",
              ![t].error = IF llm(openai_api_key, constructed).raised
                           THEN "RuntimeError" ELSE "generation"]
    /\ UNCHANGED <<sessions, messages, now, storeVars, othersOfChat>>

\* ChatService.chat: "Save assistant message", "Update session timestamp"
ChatSaveAssistantMessage(t) ==
    /\ t \in DOMAIN turns
    /\ turns[t].pc = "generated"
    /\ turns[t].session_id[1] \in SessionIds
    /\ LET id == now + 1
           assistant_msg == Message(id, turns[t].session_id[1], "assistant",
                                    turns[t].response_text, turns[t].citations)
       IN /\ messages' = Append(messages, assistant_msg)
          /\ sessions' = [sessions EXCEPT
                 ![turns[t].session_id[1]].updated_at = assistant_msg.created_at]
          /\ turns' = [turns EXCEPT ![t].pc = "persisted", ![t].assistant_msg = <<id>>]
    /\ now' = now + 1
    /\ UNCHANGED <<storeVars, othersOfChat>>

SessionDocumentLists == {<<>>, <<"D1">>, <<"D2">>, <<"D1", "D2">>}
ChatQueries == {<<"q", "1">>}

Next ==
    \/ \E d \in DocIds : DeleteDocument(d)
    \/ \E s \in 1..MaxSessions : DeleteSession(s)
    \/ \E document_ids \in SessionDocumentLists : CreateSession(document_ids)
    \/ \E s \in 1..MaxSessions, d \in DocIds : AttachDocumentToSession(s, d)
    \/ \E s \in 1..MaxSessions, q \in ChatQueries : SendMessageNotFound(s, q)
    \/ \E s \in {<<>>} \cup { <<i>> : i \in 1..MaxSessions }, q \in ChatQueries,
          a \in SessionDocumentLists, f \in {<<>>} \cup { <<d>> : d \in DocIds } :
          SendMessage(s, q, a, f)
    \/ \E s \in 1..MaxSessions, q \in ChatQueries : ChatCall(s, q)
    \/ \E t \in 1..MaxTurns :
          \/ ChatSaveUserMessage(t)
          \/ ChatRetrieve(t)
          \/ ChatRetrieveFails(t)
          \/ ChatSessionDeleted(t)
          \/ ChatGenerate(t)
          \/ ChatGenerateFails(t)
          \/ ChatSaveAssistantMessage(t)

Spec == Init /\ [][Next]_vars

\* uploads, ingestion runs and deletions of documents
NextIngest ==
    \/ \E content \in Contents, pdf \in BOOLEAN : UploadDocument(content, pdf)
    \/ \E d \in DocIds : ProcessDocument(d)
    \/ \E r \in 1..MaxRuns, failed \in SUBSET {"text", "tables", "images"} :
          ProcessDocumentStore(r, failed)
    \/ \E r \in 1..MaxRuns : ProcessDocumentFails(r)
    \/ \E d \in DocIds : DeleteDocument(d)

SpecIngest == InitIngest /\ [][NextIngest]_vars

(***************************************************************************)
(* Deletions in a populated database (SpecDelete)                          *)
(***************************************************************************)
MaxStoredSessions == 2
MaxStoredMessages == 3

\* the sessions stored, each created with every document attached
StoredSessions ==
    [i \in 1..MaxStoredSessions |->
        [id |-> i, document_ids |-> ListOf(DocIds), documents |-> ListOf(DocIds),
         created_at |-> 0, updated_at |-> 0, deleted |-> FALSE]]

\* the messages stored: message i was sent to session of[i], a user message
\* and the answer to it in turn
StoredMessages(of) ==
    [i \in DOMAIN of |->
        [id |-> i, session_id |-> of[i],
         role |-> IF i % 2 = 1 THEN "user" ELSE "assistant",
         content |-> <<"q", "1">>, citations |-> <<>>, created_at |-> i]]

\* The documents of DocIds are stored and processed, the sessions hold up to
\* MaxStoredMessages messages between them.
InitDelete ==
    /\ ChunkerIdle
    /\ ExtractIdle
    /\ EmbedIdle
    /\ documents = DocIds
    /\ chunk_rows = ProcessedChunks
    /\ used_chunk_ids = ChunkIds
    /\ files = { FileOf(d) : d \in DocIds }
    /\ uploads = <<>>
    /\ runs = <<>>
    /\ processed = [d \in documents |-> <<0>>]
    /\ retrieval = NoRetrieval
    /\ sessions = StoredSessions
    /\ \E n \in 0..MaxStoredMessages :
          \E of \in [1..n -> 1..MaxStoredSessions] :
             /\ messages = StoredMessages(of)
             /\ now = n
    /\ turns = <<>>

NextDelete ==
    \/ \E d \in DocIds : DeleteDocument(d)
    \/ \E s \in 1..MaxStoredSessions : DeleteSession(s)

SpecDelete == InitDelete /\ [][NextDelete]_vars

\* the document a step deletes, the session a step deletes
DocumentDeleted(d) == d \in documents /\ d \notin documents'
SessionDeleted(s) ==
    s \in DOMAIN sessions /\ ~sessions[s].deleted /\ sessions'[s].deleted

\* C20: delete_document leaves no Chunk of the document and every Chunk of
\* the other documents as it was; delete_session leaves no Message of the
\* session and every Message of the other sessions as it was, in order;
\* neither touches the rows the other owns.
C20_OwnershipCascades ==
    [][ /\ \A d \in DocIds : DocumentDeleted(d) =>
              /\ \A row \in chunk_rows' : row.document_id # d
              /\ \A row \in chunk_rows : row.document_id # d => row \in chunk_rows'
              /\ chunk_rows' \subseteq chunk_rows
              /\ messages' = messages
        /\ \A s \in DOMAIN sessions : SessionDeleted(s) =>
              /\ \A i \in DOMAIN messages' : messages'[i].session_id # s
              /\ messages' = SelectSeq(messages, LAMBDA m : m.session_id # s)
              /\ chunk_rows' = chunk_rows ]_vars

\* a document with chunks and a session with the first message were deleted:
\* the chunks of the other document and the later message of the other
\* session are what is left
C20_Witness ==
    /\ documents = {"D2"}
    /\ chunk_rows # {}
    /\ chunk_rows = { row \in ProcessedChunks : row.document_id = "D2" }
    /\ sessions[1].deleted
    /\ ~sessions[2].deleted
    /\ Len(messages) = 1
    /\ messages[1].id = 2
    /\ messages[1].session_id = 2

(***************************************************************************)
(* Turns of sessions with a long history (SpecHistory)                     *)
(***************************************************************************)
MaxHistory == 12

\* Sessions that hold up to MaxHistory messages: all of them in session 1, or
\* the second one in session 2.  A credential for the model is set.
InitHistory ==
    /\ ChunkerIdle
    /\ ExtractIdle
    /\ openai_api_key = "sk-key"
    /\ dimension = 1
    /\ embeddings_model = "None"
    /\ random_state = <<0, 0>>
    /\ embed_calls = <<>>
    /\ documents = DocIds
    /\ chunk_rows = ProcessedChunks
    /\ used_chunk_ids = ChunkIds
    /\ files = { FileOf(d) : d \in DocIds }
    /\ uploads = <<>>
    /\ runs = <<>>
    /\ processed = [d \in documents |-> <<0>>]
    /\ retrieval = NoRetrieval
    /\ sessions = StoredSessions
    /\ \E n \in 0..MaxHistory, shared \in BOOLEAN :
          /\ messages = StoredMessages([i \in 1..n |->
                            IF shared /\ i = 2 THEN 2 ELSE 1])
          /\ now = n
    /\ turns = <<>>

NextHistory ==
    \/ \E s \in 1..MaxStoredSessions, q \in ChatQueries : ChatCall(s, q)
    \/ \E t \in 1..MaxTurns :
          \/ ChatSaveUserMessage(t)
          \/ ChatRetrieve(t)
          \/ ChatGenerate(t)
          \/ ChatSaveAssistantMessage(t)

SpecHistory == InitHistory /\ [][NextHistory]_vars

(***************************************************************************)
(* Claims about the chat turn (checked under Spec)                         *)
(***************************************************************************)
\* the Message stored under an id, as a list of one or none
MessageWithId(id) == SelectSeq(messages, LAMBDA m : m.id = id)

\* the turns that have run retrieve_context
RetrievalRan(t) == turns[t].pc \in {"context_built", "generated", "persisted"}

\* the chunk ids of the chunks retrieve_context returned in a turn
RetrievedIds(t) ==
    { turns[t].retrieved_chunks[i].chunk_id : i \in DOMAIN turns[t].retrieved_chunks }

\* C1: every assistant Message stored by ChatService.chat cites only chunk ids
\* that retrieve_context returned in the same turn: its citations are the
\* identifiers extracted from its content, those absent from the retrieved
\* chunks dropped, the others in their extracted order.
C1_StoredCitationsWereRetrieved ==
    \A t \in DOMAIN turns :
        (turns[t].assistant_msg # <<>>
           /\ MessageWithId(turns[t].assistant_msg[1]) # <<>>) =>
            LET msg == MessageWithId(turns[t].assistant_msg[1])[1]
            IN /\ msg.role = "assistant"
               /\ \A i \in DOMAIN msg.citations : msg.citations[i] \in RetrievedIds(t)
               /\ msg.citations =
                     SelectSeq(extract_citations(msg.content),
                               LAMBDA c : c \in RetrievedIds(t))

\* an assistant Message is stored whose text cites a retrieved chunk and a
\* chunk that was not retrieved: one citation is kept, one dropped
C1_Witness ==
    \E t \in DOMAIN turns :
        /\ turns[t].assistant_msg # <<>>
        /\ MessageWithId(turns[t].assistant_msg[1]) # <<>>
        /\ LET msg == MessageWithId(turns[t].assistant_msg[1])[1]
           IN /\ Len(msg.citations) = 1
              /\ Len(extract_citations(msg.content)) = 2
              /\ extract_citations(msg.content)[1] = msg.citations[1]
              /\ extract_citations(msg.content)[2] \notin RetrievedIds(t)

\* the user Message a session stores for the text of a turn
UserMessageStored(t) ==
    \E i \in DOMAIN messages :
        /\ messages[i].role = "user"
        /\ messages[i].session_id = turns[t].session_id[1]
        /\ messages[i].content = turns[t].message

\* C3: a turn submitted through send_message to a session has its user
\* Message stored in the session once the turn has ended, whatever ended it.
C3_SendMessageKeepsUserMessage ==
    \A t \in DOMAIN turns :
        (/\ turns[t].origin = "send_message"
         /\ turns[t].session_id # <<>>
         /\ turns[t].pc \in {"failed", "persisted"}) => UserMessageStored(t)

\* the document scope of precedence: the filter of the request, else the
\* documents attached to the session, else none (None and [] search all)
PrecedenceScope(t) ==
    LET ids == SearchDocumentIds(turns[t].filter_document_id, turns[t].attached)
    IN IF ids = None THEN {} ELSE Range(ids)

\* the document scope retrieve_context was run with in a turn
RetrievalScope(t) ==
    IF turns[t].document_ids = None THEN {} ELSE Range(turns[t].document_ids)

\* C4: in every turn that ran retrieval, retrieve_context was run with the
\* filter document of the request if it gave one, else with the documents
\* attached to the session if there are any, else with no scope.
C4_RetrievalScopeByPrecedence ==
    \A t \in DOMAIN turns : RetrievalRan(t) => RetrievalScope(t) = PrecedenceScope(t)

\* C18: the legacy document_ids list of every stored session and the
\* documents associated with it through the relation denote the same set of
\* documents, whatever create_session, attach_document_to_session,
\* send_message and delete_document did.
C18_LegacyAndRelationAgree ==
    \A i \in SessionIds :
        Range(sessions[i].document_ids) = Range(sessions[i].documents)

\* C19: deleting a Document deletes no session and no message, and every
\* retrieval a turn runs is scoped to documents that are stored when it runs,
\* never to a deleted one.
C19_DeletedDocumentLeavesEveryScope ==
    [][ /\ documents' # documents =>
              /\ messages' = messages
              /\ DOMAIN sessions' = DOMAIN sessions
              /\ \A i \in DOMAIN sessions : sessions'[i].deleted = sessions[i].deleted
        /\ \A t \in DOMAIN turns :
              (turns[t].pc = "received" /\ turns'[t].pc = "context_built") =>
                  RetrievalScope(t)' \subseteq documents ]_vars

\* the assistant Messages stored, the turns that succeeded
AssistantMessages == { i \in DOMAIN messages : messages[i].role = "assistant" }
PersistedTurns == { t \in DOMAIN turns : turns[t].pc = "persisted" }

\* C21: a turn becomes PERSISTED only from GENERATED (after retrieval and
\* generation), by storing one assistant Message after its user Message, with
\* the generated text and the validated citations, and by setting updated_at
\* of the session to created_at of that Message; no assistant Message is
\* stored otherwise, so there is one for each turn that succeeded.
C21_SuccessStoresOneAssistantMessage ==
    /\ [](/\ Cardinality(AssistantMessages) <= Cardinality(PersistedTurns)
          /\ \A t \in DOMAIN turns :
                turns[t].assistant_msg # <<>> <=> t \in PersistedTurns)
    /\ [][ \A t \in DOMAIN turns :
             (turns[t].pc # "persisted" /\ turns'[t].pc = "persisted") =>
                /\ turns[t].pc = "generated"
                /\ turns[t].user_msg # <<>>
                /\ Len(messages') = Len(messages) + 1
                /\ SubSeq(messages', 1, Len(messages)) = messages
                /\ LET m == messages'[Len(messages')]
                       s == turns[t].session_id[1]
                   IN /\ m.role = "assistant"
                      /\ m.session_id = s
                      /\ m.content = turns[t].response_text
                      /\ m.citations =
                            ValidCitations(extract_citations(turns[t].response_text),
                                           turns[t].retrieved_chunks)
                      /\ m.id > turns[t].user_msg[1]
                      /\ m.created_at > MessageWithId(turns[t].user_msg[1])[1].created_at
                      /\ turns'[t].assistant_msg = <<m.id>>
                      /\ sessions'[s].updated_at = m.created_at ]_vars

\* a turn succeeded: its user Message and, after it, its assistant Message
\* with a citation are stored, and the session was updated when the
\* assistant Message was created
C21_Witness ==
    \E t \in PersistedTurns :
        /\ MessageWithId(turns[t].user_msg[1]) # <<>>
        /\ MessageWithId(turns[t].assistant_msg[1]) # <<>>
        /\ LET m == MessageWithId(turns[t].assistant_msg[1])[1]
           IN /\ m.citations # <<>>
              /\ m.created_at > sessions[m.session_id].created_at
              /\ sessions[m.session_id].updated_at = m.created_at
              /\ Cardinality(AssistantMessages) = 1

\* the turns in which retrieval or generation failed
FailedInTurn(t) == turns[t].error \in {"retrieval", "RuntimeError", "generation"}

\* C22: a turn in which retrieval or generation fails ends FAILED with the
\* error reported, has no answer and stores no assistant Message, and the step
\* that fails stores nothing; without a credential for the model (none, or the
\* placeholder) no turn ever gets an answer.
C22_FailureIsReportedWithoutAnswer ==
    /\ [](\A t \in DOMAIN turns :
            /\ FailedInTurn(t) =>
                  /\ turns[t].pc = "failed"
                  /\ turns[t].response_text = <<>>
                  /\ turns[t].assistant_msg = <<>>
            /\ turns[t].pc = "failed" => turns[t].error # "" /\ turns[t].assistant_msg = <<>>
            /\ openai_api_key \in {"", "sk-your-key-here"} =>
                  /\ turns[t].pc \notin {"generated", "persisted"}
                  /\ turns[t].response_text = <<>>
                  /\ AssistantMessages = {})
    /\ [][ \A t \in DOMAIN turns :
             (turns[t].pc # "failed" /\ turns'[t].pc = "failed") =>
                 messages' = messages ]_vars

\* without a credential a turn stored its user Message, retrieved, and failed
\* with the RuntimeError of the llm property
C22_Witness ==
    \E t \in DOMAIN turns :
        /\ openai_api_key = "sk-your-key-here"
        /\ turns[t].pc = "failed"
        /\ turns[t].error = "RuntimeError"
        /\ turns[t].retrieved_chunks # <<>>
        /\ MessageWithId(turns[t].user_msg[1]) # <<>>
        /\ AssistantMessages = {}

\* the ids of the Messages of a session other than the Message id, in order
\* of creation
EarlierMessages(session_id, id) ==
    LET earlier == SelectSeq(SessionMessages(session_id), LAMBDA m : m.id # id)
    IN [i \in DOMAIN earlier |-> earlier[i].id]

\* C26: the history a turn reads is the Messages the session holds at that
\* time besides the user Message the turn has just stored, in order of
\* creation, the last 10 of them when there are more; the model is given that
\* history, never the user Message of the turn in it, and the text of that
\* Message as the query.
C26_HistoryIsLastTenEarlierMessages ==
    /\ [](\A t \in DOMAIN turns :
            turns[t].llm_messages # <<>> =>
                /\ Len(turns[t].llm_messages.chat_history) <= 10
                /\ turns[t].user_msg[1] \notin Range(turns[t].llm_messages.chat_history)
                /\ turns[t].llm_messages.chat_history = turns[t].chat_history
                /\ turns[t].llm_messages.user_query = turns[t].message)
    /\ [][ \A t \in DOMAIN turns :
             (turns[t].pc = "received" /\ turns'[t].pc = "context_built") =>
                LET earlier == EarlierMessages(turns[t].session_id[1],
                                               turns[t].user_msg[1])
                IN /\ MessageWithId(turns[t].user_msg[1])[1].content = turns[t].message
                   /\ turns'[t].chat_history =
                         IF Len(earlier) > 10
                         THEN SubSeq(earlier, Len(earlier) - 9, Len(earlier))
                         ELSE earlier ]_vars

\* a turn of a session that held more than 10 messages, beside those of
\* another session: the model was given 10 of them
C26_Witness ==
    \E t \in DOMAIN turns :
        /\ turns[t].llm_messages # <<>>
        /\ Len(turns[t].llm_messages.chat_history) = 10
        /\ Len(EarlierMessages(turns[t].session_id[1], turns[t].user_msg[1])) > 10
        /\ \E i \in DOMAIN messages : messages[i].session_id # turns[t].session_id[1]

\* C30: every identifier in the citations of a stored assistant Message is
\* the id of a Chunk that is stored.
C30_CitationsNameStoredChunks ==
    \A i \in AssistantMessages :
        \A c \in Range(messages[i].citations) :
            \E row \in chunk_rows : row.id = c

(***************************************************************************)
(* The embedding service called with bounded texts (SpecEmbed)             *)
(***************************************************************************)
EmbedBatches == UNION { [1..n -> EmbedTexts] : n \in 0..MaxBatch }

\* a service just constructed; the generator of module random is in a state
\* left by whoever used it before
InitEmbed ==
    /\ ChunkerIdle
    /\ ExtractIdle
    /\ StoreIdle
    /\ ChatIdle
    /\ openai_api_key \in {"", "sk-your-key-here", "sk-key"}
    /\ dimension \in 1..MaxDimension
    /\ embeddings_model = "None"
    /\ random_state \in {<<0, 0>>, <<3, 1>>}
    /\ embed_calls = <<>>

othersOfEmbed == <<chunkerVars, extractVars, storeVars, chatVars, retrieval>>

\* the record of a call
EmbedCall(fn, texts, constructed, answers, r) ==
    [fn |-> fn, texts |-> texts, model |-> r.model,
     constructed |-> constructed, answers |-> answers, outcome |-> r.outcome]

\* a call of generate_embedding
GenerateEmbedding(t, constructed, answers) ==
    /\ Len(embed_calls) < MaxCalls
    /\ LET r == generate_embedding_call(embeddings_model, openai_api_key, constructed,
                                        answers, random_state, t, dimension)
       IN /\ embeddings_model' = r.model
          /\ random_state' = r.state
          /\ embed_calls' = Append(embed_calls,
                 EmbedCall("generate_embedding", <<t>>, constructed, answers, r))
    /\ UNCHANGED <<openai_api_key, dimension, othersOfEmbed>>

\* a call of generate_embeddings
GenerateEmbeddings(texts, constructed, answers) ==
    /\ Len(embed_calls) < MaxCalls
    /\ LET r == generate_embeddings(embeddings_model, openai_api_key, constructed,
                                    answers, random_state, texts, dimension)
       IN /\ embeddings_model' = r.model
          /\ random_state' = r.state
          /\ embed_calls' = Append(embed_calls,
                 EmbedCall("generate_embeddings", texts, constructed, answers, r))
    /\ UNCHANGED <<openai_api_key, dimension, othersOfEmbed>>

\* whether OpenAIEmbeddings(...) can be built is open while it was not tried
Constructions ==
    IF embeddings_model = "None" /\ openai_api_key \notin {"", "sk-your-key-here"}
    THEN BOOLEAN ELSE {TRUE}

\* whether the external model answers is open when it is the model called
Answers(constructed) ==
    IF EmbeddingsModel(embeddings_model, openai_api_key, constructed).value = "openai"
    THEN BOOLEAN ELSE {TRUE}

NextEmbed ==
    \/ \E t \in EmbedTexts, constructed \in Constructions :
          \E answers \in Answers(constructed) : GenerateEmbedding(t, constructed, answers)
    \/ \E texts \in EmbedBatches, constructed \in Constructions :
          \E answers \in Answers(constructed) :
              GenerateEmbeddings(texts, constructed, answers)

SpecEmbed == InitEmbed /\ [][NextEmbed]_vars

\* whether a call was answered by the mock
ByMock(call) == ~call.outcome.raised /\ (call.model = "mock" \/ ~call.answers)

\* the vectors a call returned, as a list
ReturnedVectors(call) ==
    IF call.fn = "generate_embedding" THEN <<call.outcome.value>> ELSE call.outcome.value

\* C11: for one text and one dimension D, every call of the mock embedding
\* returns the same vector of exactly D values, whatever was embedded between
\* the calls and whatever state the generator was in.
C11_MockEmbeddingDependsOnTextOnly ==
    \A a, b \in DOMAIN embed_calls :
        (ByMock(embed_calls[a]) /\ ByMock(embed_calls[b])) =>
            \A i \in DOMAIN embed_calls[a].texts, j \in DOMAIN embed_calls[b].texts :
                embed_calls[a].texts[i] = embed_calls[b].texts[j] =>
                    /\ Len(ReturnedVectors(embed_calls[a])[i]) = dimension
                    /\ ReturnedVectors(embed_calls[a])[i] = ReturnedVectors(embed_calls[b])[j]

\* a text was embedded by the mock, then another text, then the first again,
\* and the two texts have different vectors
C11_Witness ==
    /\ Len(embed_calls) = 2
    /\ ByMock(embed_calls[1]) /\ ByMock(embed_calls[2])
    /\ embed_calls[1].texts = <<<<"t", "1">>>>
    /\ embed_calls[2].texts = << <<"u", "2">>, <<"t", "1">> >>
    /\ embed_calls[2].outcome.value[1] # embed_calls[2].outcome.value[2]
    /\ random_state # <<0, 0>>

\* the vector of a text: of the external model, or of the mock started from
\* the seed of the text
VectorOf(call, t) ==
    IF ByMock(call) THEN RandomDraw(<<Md5(t) % SeedModulus, 0>>, dimension)[1]
    ELSE embed_query(t, dimension)

\* C12: generate_embeddings returns one vector per text, vector i being the
\* embedding of text i, by the external model and by the mock alike.
C12_OneVectorPerTextInOrder ==
    \A a \in DOMAIN embed_calls :
        LET call == embed_calls[a]
        IN (call.fn = "generate_embeddings" /\ ~call.outcome.raised) =>
              /\ Len(call.outcome.value) = Len(call.texts)
              /\ \A i \in DOMAIN call.texts :
                    call.outcome.value[i] = VectorOf(call, call.texts[i])

\* a batch of two different texts was answered by the external model, and a
\* batch of the same texts by the mock after the external model failed
C12_Witness ==
    /\ Len(embed_calls) = 2
    /\ \A a \in 1..2 : /\ embed_calls[a].fn = "generate_embeddings"
                       /\ embed_calls[a].texts = << <<"u", "2">>, <<"t", "1">> >>
                       /\ embed_calls[a].model = "openai"
                       /\ embed_calls[a].outcome.value[1] # embed_calls[a].outcome.value[2]
    /\ ~ByMock(embed_calls[1])
    /\ ByMock(embed_calls[2])

\* C13: no call of generate_embedding or generate_embeddings raises; without a
\* usable credential, when the model cannot be built and when the external
\* call raises, the call returns the mock vectors of its texts.
C13_ExternalFailureFallsBackToMock ==
    \A a \in DOMAIN embed_calls :
        LET call == embed_calls[a]
            mock == [i \in DOMAIN call.texts |->
                        RandomDraw(<<Md5(call.texts[i]) % SeedModulus, 0>>, dimension)[1]]
        IN /\ ~call.outcome.raised
           /\ (\/ openai_api_key \in {"", "sk-your-key-here"}
               \/ call.model = "mock"
               \/ ~call.answers) => ReturnedVectors(call) = mock

\* with a credential, a call found that the model cannot be built and a later
\* call was made; or the external call of a built model raised
C13_Witness ==
    /\ openai_api_key = "sk-key"
    /\ Len(embed_calls) = 2
    /\ ~embed_calls[1].constructed
    /\ embed_calls[1].model = "mock"
    /\ embed_calls[2].fn = "generate_embedding"
    /\ ~embed_calls[2].outcome.raised

(***************************************************************************)
(* Claims about uploads and ingestion runs (checked under SpecIngest)      *)
(***************************************************************************)
\* the stored documents created from an upload of the bytes with a hash
DocumentsWithHash(h) ==
    { d \in documents : \E i \in DOMAIN uploads :
          uploads[i].file_hash = h /\ uploads[i].file_path = FileOf(d) }

\* C14: at most one Document is stored per content hash; every upload of a PDF
\* is answered with a Document, the one it created or the one already stored
\* for its hash, and a file it wrote that is the file of no Document is removed.
C14_UploadStoresOneDocumentPerHash ==
    /\ \A content \in Contents : Cardinality(DocumentsWithHash(Sha256(content))) <= 1
    /\ \A i \in DOMAIN uploads :
          uploads[i].file_hash # <<>> =>
              /\ uploads[i].response \notin {"AttributeError"}
              /\ uploads[i].file_path \in files =>
                    \E d \in documents : FileOf(d) = uploads[i].file_path

ChunkIdsOf(d) == { row.id : row \in { x \in chunk_rows : x.document_id = d } }

\* C16: after a run of a document that succeeded, overlapped no other run of
\* the document and was not followed by another run or the deletion of the
\* document, the chunks of the document are exactly the chunks the run created.
C16_ReprocessingReplacesChunks ==
    \A r \in DOMAIN runs :
        (runs[r].state = "done" /\ ~runs[r].overlapped /\ ~runs[r].superseded) =>
            ChunkIdsOf(runs[r].document_id) = Range(runs[r].chunk_ids)

\* a document was processed twice, one run after the other, and both runs
\* created chunks
C16_Witness ==
    /\ Len(runs) = 2
    /\ runs[1].document_id = runs[2].document_id
    /\ runs[1].state = "done" /\ runs[1].chunk_ids # <<>> /\ runs[1].superseded
    /\ runs[2].state = "done" /\ ~runs[2].overlapped /\ ~runs[2].superseded
    /\ runs[2].chunk_ids # <<>>
    /\ Range(runs[1].chunk_ids) \cap Range(runs[2].chunk_ids) = {}

\* C17: at no time are two ingestion runs of one document in progress, and the
\* chunks a document holds were all created by one run.
C17_IngestionSerializedPerDocument ==
    \A d \in DocIds :
        /\ Cardinality({ r \in DOMAIN runs :
                            runs[r].document_id = d /\ runs[r].state = "running" }) <= 1
        /\ \E r \in DOMAIN runs \cup {0} :
              ChunkIdsOf(d) \subseteq (IF r = 0 THEN {} ELSE Range(runs[r].chunk_ids))

\* the chunks the file of a document holds
ChunksIn(d) == ParsedChunks(d) + ParsedTables(d) + ParsedImages(d)

\* C23: a run in which a step of the extraction failed (conversion, text,
\* tables or figures) has raised, committed no chunk and did not mark the
\* document processed; a run that marked the document processed committed
\* every chunk of the file.
C23_IngestionRunIsAllOrNothing ==
    \A r \in DOMAIN runs :
        /\ runs[r].failed_steps # {} =>
              /\ runs[r].state = "failed"
              /\ runs[r].chunk_ids = <<>>
              /\ runs[r].document_id \in documents =>
                    processed[runs[r].document_id] # <<r>>
        /\ (runs[r].document_id \in documents /\ processed[runs[r].document_id] = <<r>>) =>
              /\ runs[r].state = "done"
              /\ Len(runs[r].chunk_ids) = ChunksIn(runs[r].document_id)

\* C24: after a run of a document that raised and was not followed by another
\* run of the document, the document has no chunk: neither those of an earlier
\* run nor any of the run that raised.
C24_FailedReprocessingLeavesNoChunks ==
    \A r \in DOMAIN runs :
        (runs[r].state = "failed" /\ ~runs[r].superseded) =>
            /\ ChunkIdsOf(runs[r].document_id) = {}
            /\ runs[r].chunk_ids = <<>>

\* the place of a media type in all_chunks
MediaRank(media_type) ==
    CASE media_type = "text" -> 0 [] media_type = "table" -> 1 [] OTHER -> 2

\* the chunks stored for a document
RowsOf(d) == { row \in chunk_rows : row.document_id = d }

\* C28: the chunk_index values of the chunks stored for a document are
\* pairwise distinct and form 0..n-1, the text chunks first, then the table
\* chunks, then the image chunks.
C28_ChunkIndexesFormRange ==
    \A d \in documents :
        /\ \A x, y \in RowsOf(d) : x.chunk_index = y.chunk_index => x = y
        /\ { row.chunk_index : row \in RowsOf(d) } = 0..(Cardinality(RowsOf(d)) - 1)
        /\ \A x, y \in RowsOf(d) :
              x.chunk_index < y.chunk_index =>
                  MediaRank(x.media_type) <= MediaRank(y.media_type)

\* C29: when the processed timestamp of a document is set and no run of it is
\* in progress, its chunks are exactly those committed by its most recent
\* successful run, the run that set the timestamp.
C29_ProcessedDocumentHoldsLastRunsChunks ==
    \A d \in documents :
        (/\ processed[d] # <<>>
         /\ \A r \in DOMAIN runs :
               runs[r].document_id = d => runs[r].state # "running") =>
            /\ processed[d][1] \in DOMAIN runs
            /\ runs[processed[d][1]].state = "done"
            /\ ChunkIdsOf(d) = Range(runs[processed[d][1]].chunk_ids)

(***************************************************************************)
(* _mock_embedding called by threads of one process (SpecThreads)          *)
(***************************************************************************)
\* A service without credential, its model is "mock"; no call is in progress.
InitThreads ==
    /\ ChunkerIdle
    /\ ExtractIdle
    /\ StoreIdle
    /\ ChatIdle
    /\ openai_api_key = ""
    /\ dimension \in 1..MaxDimension
    /\ embeddings_model = "mock"
    /\ random_state = <<0, 0>>
    /\ embed_calls = <<>>

\* a thread (the event loop, a worker of the thread pool that runs
\* process_document_task) enters _mock_embedding
MockEmbeddingCall(t) ==
    /\ Len(embed_calls) < MaxCalls
    /\ embed_calls' = Append(embed_calls,
           [fn |-> "_mock_embedding", text |-> t, pc |-> "seed", vector |-> <<>>])
    /\ UNCHANGED <<openai_api_key, dimension, embeddings_model, random_state,
                   othersOfEmbed>>

\* "random.seed(int(text_hash, 16) % (2**32))" on the generator of the module
MockEmbeddingSeed(c) ==
    /\ c \in DOMAIN embed_calls
    /\ embed_calls[c].pc = "seed"
    /\ random_state' = RandomSeed(random_state, Md5(embed_calls[c].text) % SeedModulus)
    /\ embed_calls' = [embed_calls EXCEPT ![c].pc = "draw"]
    /\ UNCHANGED <<openai_api_key, dimension, embeddings_model, othersOfEmbed>>

\* one "random.uniform(-1, 1)" of the list comprehension; the thread can be
\* switched before and after it
MockEmbeddingDraw(c) ==
    /\ c \in DOMAIN embed_calls
    /\ embed_calls[c].pc = "draw"
    /\ LET drawn == RandomDraw(random_state, 1)
           vector == embed_calls[c].vector \o drawn[1]
       IN /\ random_state' = drawn[2]
          /\ embed_calls' = [embed_calls EXCEPT
                 ![c].vector = vector,
                 ![c].pc = IF Len(vector) = dimension THEN "done" ELSE "draw"]
    /\ UNCHANGED <<openai_api_key, dimension, embeddings_model, othersOfEmbed>>

NextThreads ==
    \/ \E t \in EmbedTexts : MockEmbeddingCall(t)
    \/ \E c \in 1..MaxCalls : MockEmbeddingSeed(c)
    \/ \E c \in 1..MaxCalls : MockEmbeddingDraw(c)

SpecThreads == InitThreads /\ [][NextThreads]_vars

\* C27: every call of _mock_embedding that has returned, whatever other calls
\* ran in other threads meanwhile, returned the vector its text gives when it
\* is embedded alone.
C27_MockEmbeddingDeterministicUnderConcurrency ==
    \A c \in DOMAIN embed_calls :
        embed_calls[c].pc = "done" =>
            embed_calls[c].vector =
                mock_embedding(<<0, 0>>, embed_calls[c].text, dimension)[1]

====
